---- MODULE Spec2Model ----
(***************************************************************************)
(* Model of the wallet's Realm storage layer (Account, Node and Wallet    *)
(* models, and the purge / initialise / reinitialise lifecycle), and of   *)
(* the ProgressBar component (swipe slider and progress display).          *)
(*                                                                         *)
(* A JavaScript object is a function from property names to values; a     *)
(* property that is missing (undefined) is outside its DOMAIN.  The store  *)
(* holds, per object type, the list of stored objects in insertion order.  *)
(* A transaction body is the sequence of primitive mutations it performs,  *)
(* applied one after the other to a working copy of the store.             *)
(***************************************************************************)
EXTENDS Integers, Sequences, FiniteSets, TLC

VARIABLES
    realm,          \* the open Realm: [Account, Node, Wallet] -> stored objects
    storageFault,   \* the next commit fails (an I/O failure of the device)
    microtasks,     \* pending .then callbacks of reinitialise(), oldest first
    last,           \* what the latest call did and what its caller observed
    initialised,    \* some initialise() has resolved
    nOps,           \* number of API calls issued so far
    bar             \* the mounted ProgressBar: props, state, timers, gesture

vars == <<realm, storageFault, microtasks, last, initialised, nOps, bar>>

---------------------------------------------------------------------------
(* Bounds of the exploration.                                              *)

MaxOps == 2

MaxBatch == 2

Names == {"alice", "bob"}

\* Account.create payloads: complete ones, and one that omits transactions.
CreateDatas ==
    { [name |-> "alice", addressData |-> {"A1"}, transactions |-> {"T1"}],
      [name |-> "bob", addressData |-> {"A2"}, transactions |-> {"T2"}],
      [name |-> "alice", addressData |-> {"A2"}] }

\* Account.update payloads: complete, partial, and one that carries a name.
UpdateDatas ==
    { [addressData |-> {"A2"}, transactions |-> {"T2"}],
      [addressData |-> {"A3"}],
      [name |-> "bob", addressData |-> {"A3"}] }

URLs == {"u1", "u2"}

NodeInputs ==
    [url : URLs, custom : BOOLEAN]
        \cup {[url |-> "u1", custom |-> FALSE, pow |-> TRUE]}

Batches == UNION {[1..n -> NodeInputs] : n \in 0..MaxBatch}

Strings == {"x"}

LogEntries == {"e1", "e2"}

NotificationTypes == {"general"}

\* updateCurrencyData payloads: complete, and one without conversionRate.
CurrencyPayloads ==
    { [currency |-> "EUR", conversionRate |-> "2", availableCurrencies |-> "EUR,USD"],
      [currency |-> "GBP", availableCurrencies |-> "GBP"] }

\* setVersions payloads: complete, and one without version.
VersionPayloads ==
    { [buildNumber |-> "42", version |-> "1.0"], [buildNumber |-> "43"] }

---------------------------------------------------------------------------
(* Constants and schemas.                                                  *)

SCHEMA_VERSION == 0

WalletVersion == SCHEMA_VERSION

Undefined == << >>

IsEmpty(obj) == DOMAIN obj = {}

Assign(target, source) == source @@ target

Restrict(obj, props) == [p \in (DOMAIN obj) \cap props |-> obj[p]]

PrimaryKey == [Account |-> "name", Node |-> "url", Wallet |-> "version"]

AccountDefaults == [addressData |-> {}, transactions |-> {}]

NodeDefaults == [custom |-> FALSE, pow |-> FALSE]

WalletSettingsDefaults ==
    [ remotePoW |-> FALSE, autoPromotion |-> FALSE,
      autoNodeSwitching |-> FALSE, lockScreenTimeout |-> "default",
      locale |-> "default", mode |-> "default", node |-> "default",
      language |-> "default", currency |-> "default",
      conversionRate |-> "default", availableCurrencies |-> "default",
      themeName |-> "default", hasRandomizedNode |-> FALSE,
      is2FAEnabled |-> FALSE, isFingerprintEnabled |-> FALSE,
      buildNumber |-> "default", version |-> "default",
      acceptedTerms |-> FALSE, acceptedPrivacy |-> FALSE,
      hideEmptyTransactions |-> FALSE,
      completedForcedPasswordUpdate |-> FALSE,
      completedByteTritSweep |-> FALSE, isTrayEnabled |-> FALSE,
      notifications |-> << >> ]

WalletDefaults == [onboardingComplete |-> FALSE, errorLog |-> << >>]

Defaults(type) ==
    CASE type = "Account" -> AccountDefaults
      [] type = "Node"    -> NodeDefaults
      [] type = "Wallet"  -> WalletDefaults

Properties(type) == {PrimaryKey[type]} \cup DOMAIN Defaults(type)

---------------------------------------------------------------------------
(* The Realm primitives the models call.                                   *)

Ok(r) == [ok |-> TRUE, realm |-> r]

Thrown(r) == [ok |-> FALSE, realm |-> r]

\* Position of the stored object with the given primary key, 0 if none.
IndexOf(objects, pk, key) ==
    IF \E i \in 1..Len(objects) : objects[i][pk] = key
    THEN CHOOSE i \in 1..Len(objects) :
            /\ objects[i][pk] = key
            /\ \A j \in 1..(i - 1) : objects[j][pk] # key
    ELSE 0

\* realm.objectForPrimaryKey(type, key)
ObjectForPrimaryKey(r, type, key) ==
    LET i == IndexOf(r[type], PrimaryKey[type], key)
    IN  IF i = 0 THEN Undefined ELSE r[type][i]

RemoveAt(objects, i) ==
    SubSeq(objects, 1, i - 1) \o SubSeq(objects, i + 1, Len(objects))

\* Variant used to test the claims: the schema's defaults win over data.
NewObjectDefaultsFirst(type, data) ==
    LET pk  == PrimaryKey[type]
        top == (pk :> data[pk]) @@ Defaults(type)
    IN  IF type = "Wallet"
        THEN top @@ [settings |-> WalletSettingsDefaults]
        ELSE top

\* The object a create stores: the schema's properties of data, defaults
\* for the rest; the embedded settings object is built the same way.
NewObject(type, data) ==
    LET top == Restrict(data, Properties(type)) @@ Defaults(type)
    IN  IF type = "Wallet"
        THEN top @@ [settings |->
                        (IF "settings" \in DOMAIN data
                         THEN Restrict(data.settings, DOMAIN WalletSettingsDefaults)
                         ELSE << >>) @@ WalletSettingsDefaults]
        ELSE top

\* Variant used to test the claims: a create without the update flag never
\* looks for a stored object with the same primary key.
RealmCreateUnchecked(r, type, data, update) ==
    LET pk == PrimaryKey[type]
    IN  IF pk \notin DOMAIN data
        THEN Thrown(r)
        ELSE LET i == IndexOf(r[type], pk, data[pk])
             IN  IF i # 0 /\ update
                 THEN Ok([r EXCEPT ![type][i] =
                             Restrict(data, Properties(type)) @@ @])
                 ELSE Ok([r EXCEPT ![type] = Append(@, NewObject(type, data))])

\* realm.create(type, data, update)
RealmCreate(r, type, data, update) ==
    LET pk == PrimaryKey[type]
    IN  IF pk \notin DOMAIN data
        THEN Thrown(r)
        ELSE LET i == IndexOf(r[type], pk, data[pk])
             IN  IF i = 0
                 THEN Ok([r EXCEPT ![type] = Append(@, NewObject(type, data))])
                 ELSE IF update
                      THEN Ok([r EXCEPT ![type][i] =
                                  Restrict(data, Properties(type)) @@ @])
                      ELSE Thrown(r)

\* realm.delete(object)
RealmDelete(r, type, object) ==
    IF IsEmpty(object)
    THEN Thrown(r)
    ELSE LET i == IndexOf(r[type], PrimaryKey[type], object[PrimaryKey[type]])
         IN  IF i = 0 THEN Thrown(r)
             ELSE Ok([r EXCEPT ![type] = RemoveAt(@, i)])

\* realm.deleteAll()
RealmDeleteAll(r) == Ok([Account |-> << >>, Node |-> << >>, Wallet |-> << >>])

---------------------------------------------------------------------------
(* Steps of a transaction body.                                            *)

Create(type, data, update) ==
    [k |-> "create", type |-> type, data |-> data, update |-> update]

Delete(type, object) == [k |-> "delete", type |-> type, object |-> object]

DeleteAll == [k |-> "deleteAll"]

\* Wallet.latestData.<field> = value
SetData(field, value) == [k |-> "setData", field |-> field, value |-> value]

\* Wallet.latestSettings.<field> = value
SetSetting(field, value) == [k |-> "setSetting", field |-> field, value |-> value]

\* Wallet.latestSettings.<field> = <key>, with { <key> } = payload: the
\* value is undefined when the payload has no such property.
SetSettingFrom(field, payload, key) ==
    IF key \in DOMAIN payload
    THEN SetSetting(field, payload[key])
    ELSE [k |-> "setSettingUndefined", field |-> field]

\* Wallet.latestSettings.<field> = !Wallet.latestSettings.<field>
ToggleSetting(field) == [k |-> "toggleSetting", field |-> field]

\* Wallet.latestSettings.notifications[type] = enabled
SetNotification(type, enabled) ==
    [k |-> "setNotification", type |-> type, enabled |-> enabled]

\* Wallet.latestData.errorLog.push(payload)
PushErrorLog(payload) == [k |-> "pushErrorLog", payload |-> payload]

\* Variant used to test the claims: a callback that calls realm.write
\* itself, inside its transaction (Realm throws at that call).
Write(steps) == [k |-> "write", steps |-> steps]

\* Position of the Wallet object of the current version (Wallet.latestData).
LatestData(r) == IndexOf(r.Wallet, "version", WalletVersion)

ApplyStep(r, s) ==
    LET w == LatestData(r)
    IN  CASE s.k = "create"    -> RealmCreate(r, s.type, s.data, s.update)
          [] s.k = "delete"    -> RealmDelete(r, s.type, s.object)
          [] s.k = "deleteAll" -> RealmDeleteAll(r)
          [] s.k = "setData" ->
                IF w = 0 THEN Thrown(r)
                ELSE Ok([r EXCEPT !.Wallet[w][s.field] = s.value])
          [] s.k = "setSetting" ->
                IF w = 0 THEN Thrown(r)
                ELSE Ok([r EXCEPT !.Wallet[w].settings[s.field] = s.value])
          [] s.k = "setSettingUndefined" -> Thrown(r)
          [] s.k = "toggleSetting" ->
                IF w = 0 THEN Thrown(r)
                ELSE Ok([r EXCEPT !.Wallet[w].settings[s.field] = ~@])
          [] s.k = "setNotification" ->
                IF w = 0 THEN Thrown(r)
                ELSE Ok([r EXCEPT !.Wallet[w].settings.notifications =
                                      (s.type :> s.enabled) @@ @])
          [] s.k = "pushErrorLog" ->
                IF w = 0 THEN Thrown(r)
                ELSE Ok([r EXCEPT !.Wallet[w].errorLog = Append(@, s.payload)])
          [] s.k = "write" -> Thrown(r)

\* Runs steps n+1 .. Len(steps); stops at the first one that throws.
RECURSIVE RunSteps(_, _, _)
RunSteps(r, steps, n) ==
    IF n = Len(steps)
    THEN [ok |-> TRUE, realm |-> r, applied |-> n]
    ELSE LET res == ApplyStep(r, steps[n + 1])
         IN  IF res.ok
             THEN RunSteps(res.realm, steps, n + 1)
             ELSE [ok |-> FALSE, realm |-> r, applied |-> n]

\* The most write scopes asked for at one time by a transaction whose
\* callback got through its first `applied` steps: its own, and one more
\* when a step it reached calls realm.write itself.
ScopesOpened(steps, applied) ==
    IF \E i \in 1..Len(steps) : i <= applied + 1 /\ steps[i].k = "write"
    THEN 2 ELSE 1

\* realm.write(callback): commits what the callback did, or cancels the
\* transaction and rethrows when the callback or the commit throws.
RealmWrite(r, steps, fault) ==
    LET run == RunSteps(r, steps, 0)
        scopes == ScopesOpened(steps, run.applied)
    IN  IF run.ok /\ ~fault
        THEN [threw |-> FALSE, realm |-> run.realm, applied |-> run.applied,
              wrote |-> TRUE, faulted |-> FALSE, scopes |-> scopes]
        ELSE [threw |-> TRUE, realm |-> r, applied |-> run.applied,
              wrote |-> TRUE, faulted |-> run.ok, scopes |-> scopes]

\* A call that opens no transaction.
NoWrite(r) ==
    [threw |-> FALSE, realm |-> r, applied |-> 0, wrote |-> FALSE,
     faulted |-> FALSE, scopes |-> 0]

---------------------------------------------------------------------------
(* The ProgressBar component.  Progress values are in hundredths (1 is     *)
(* 100, the idle value -1 is -100); an Animated.Value is its current value *)
(* `at` and the value `to` a running animation takes it to (to = at when   *)
(* none runs), opacities in hundredths too.  The frame loop that fills the *)
(* bar (counter, progressPosition) is kept as one token.                   *)

\* The props the parent never changes: width, height and stepSize.
FixedProps == [width |-> 5, height |-> 1, stepSize |-> 50]

\* The values of props.progress: idle, first step, last step (1 -
\* stepSize), and 1.
ProgressValues == {-100, 0, 50, 100}

ProgressTexts == {"t1"}

NewPropsValues ==
    [progress : ProgressValues, interupt : BOOLEAN, progressText : ProgressTexts]

\* gestureState.dx of a move: left of the start, part of the way, the
\* threshold distance.
Dxs == {-1, 2, 4}

TimerNames ==
    { "delayProgressTextChange", "delayProgressTextFadeOut", "delaySliderReset",
      "delaySuccessAnimation", "delaySliderOpacityIncreaseAnimation" }

\* new Animated.Value(v)
AnimatedValue(v) == [at |-> v, to |-> v]

\* value.setValue(v): also stops the animation of the value.
SetValue(v) == [at |-> v, to |-> v]

\* Animated.timing / Animated.spring (value, { toValue }).start()
AnimateTo(value, toValue) == [at |-> value.at, to |-> toValue]

\* Animated.timing(value).stop()
StopAnimation(value) == [at |-> value.at, to |-> value.at]

\* The state the constructor sets.
ConstructedState ==
    [ progressPosition |-> "zero",
      progress |-> -100,
      sliderPosition |-> AnimatedValue(0),
      thresholdDistance |-> FixedProps.width - FixedProps.height,
      sliderColor |-> "preSwipeColor",
      textOpacity |-> AnimatedValue(100),
      sliderOpacity |-> AnimatedValue(100),
      progressText |-> "",
      inProgress |-> FALSE,
      sliderAnimation |-> "sliderLoadingAnimation",
      shouldLoopSliderAnimation |-> "undefined" ]

\* The component right after it was mounted, idle.  Next to props and
\* state: the lottie view of the slider, the named timers that are set, the
\* text the pending text change holds, gestureState.dx, and two records of
\* what happened: whose run the pending 'delaySliderReset' timer is of
\* ("own": the run that set it is the present one; "interrupted": that run
\* was interrupted; "stale": and a new run has started since), and whether
\* the last handler invoked props.onCompleteSwipe.
Mounted ==
    [ props |-> [progress |-> -100, interupt |-> FALSE, progressText |-> "t1"],
      state |-> ConstructedState,
      mounted |-> TRUE,
      lottie |-> "reset",
      timers |-> {},
      timerText |-> "",
      dx |-> 0,
      resetOf |-> "none",
      swiped |-> FALSE ]

---------------------------------------------------------------------------
(* Stores a session can open: the file is empty on a fresh install and     *)
(* holds what earlier sessions committed otherwise.                        *)

EmptyRealm == [Account |-> << >>, Node |-> << >>, Wallet |-> << >>]

NewWallet == [version |-> WalletVersion, settings |-> [notifications |-> << >>]]

InitialisedStore ==
    RunSteps(EmptyRealm, <<Create("Wallet", NewWallet, FALSE)>>, 0).realm

UsedStore ==
    RunSteps(EmptyRealm,
             << Create("Wallet", NewWallet, FALSE),
                Create("Account", [name |-> "alice", addressData |-> {"A1"},
                                   transactions |-> {"T1"}], FALSE),
                Create("Node", [url |-> "u1", custom |-> TRUE, pow |-> TRUE], FALSE),
                SetSetting("locale", "x"),
                PushErrorLog("e1"),
                SetData("onboardingComplete", TRUE) >>, 0).realm

OpenStores == {EmptyRealm, InitialisedStore, UsedStore}

Init ==
    /\ realm \in OpenStores
    /\ storageFault = FALSE
    /\ microtasks = << >>
    /\ last = [op |-> "open", args |-> << >>, outcome |-> "returned",
               threw |-> FALSE, wrote |-> FALSE, applied |-> 0, faulted |-> FALSE,
               scopes |-> 0, prev |-> <<"none", "none", FALSE>>, quiet |-> TRUE]
    /\ initialised = FALSE
    /\ nOps = 0
    /\ bar = Mounted

---------------------------------------------------------------------------
(* Calls.                                                                  *)

\* Every other call that runs while a reinitialise() is pending disturbs it.
Disturbed(tasks) == [i \in DOMAIN tasks |-> [tasks[i] EXCEPT !.quiet = FALSE]]

\* One API call: w is what its transaction did; the caller observes okWord
\* or, when the transaction threw, errWord.
Call(op, args, w, okWord, errWord) ==
    /\ nOps < MaxOps
    /\ nOps' = nOps + 1
    /\ realm' = w.realm
    /\ storageFault' = (storageFault /\ ~w.faulted)
    /\ microtasks' = Disturbed(microtasks)
    /\ UNCHANGED bar
    /\ last' = [op |-> op, args |-> args,
                outcome |-> IF w.threw THEN errWord ELSE okWord,
                pre |-> realm, threw |-> w.threw, wrote |-> w.wrote,
                applied |-> w.applied, faulted |-> w.faulted, scopes |-> w.scopes,
                prev |-> <<last.op, last.outcome, last.wrote>>, quiet |-> TRUE]

\* A model method: an exception of its transaction reaches the caller.
Method(op, args, steps) ==
    Call(op, args, RealmWrite(realm, steps, storageFault), "returned", "threw")

\* Variant used to test the claims: every step in a transaction of its own,
\* so that the steps before a failing one stay committed.
WritePerStep(r, steps) ==
    LET run == RunSteps(r, steps, 0)
    IN  [threw |-> ~run.ok, realm |-> run.realm, applied |-> run.applied,
         wrote |-> TRUE, faulted |-> FALSE, scopes |-> 1]

---------------------------------------------------------------------------
(* Account.                                                                *)

AccountGetObjectForId(r, id) == ObjectForPrimaryKey(r, "Account", id)

\* Variant used to test the claims: creates with the update flag.
AccountCreateUpserting(data) ==
    /\ Method("Account.create", <<data>>, <<Create("Account", data, TRUE)>>)
    /\ UNCHANGED initialised

AccountCreate(data) ==
    /\ Method("Account.create", <<data>>, <<Create("Account", data, FALSE)>>)
    /\ UNCHANGED initialised

\* Variant used to test the claims: the stored record is replaced whole.
AccountUpdateReplacing(name, data) ==
    LET given  == data @@ [name |-> name]
        stored == AccountGetObjectForId(realm, given.name)
    IN  /\ Method("Account.update", <<name, data>>,
                  IF IsEmpty(stored)
                  THEN <<Create("Account", given, FALSE)>>
                  ELSE <<Delete("Account", stored), Create("Account", given, FALSE)>>)
        /\ UNCHANGED initialised

AccountUpdate(name, data) ==
    /\ Method("Account.update", <<name, data>>,
              <<Create("Account", data @@ [name |-> name], TRUE)>>)
    /\ UNCHANGED initialised

\* Variant used to test the claims: a name that is not stored is skipped.
AccountDeleteIfStored(name) ==
    /\ IF IsEmpty(AccountGetObjectForId(realm, name))
       THEN Call("Account.delete", <<name>>, NoWrite(realm), "returned", "threw")
       ELSE Method("Account.delete", <<name>>,
                   <<Delete("Account", AccountGetObjectForId(realm, name))>>)
    /\ UNCHANGED initialised

\* Variant used to test the claims: deletes the account stored first.
AccountDeleteFirst(name) ==
    /\ Method("Account.delete", <<name>>,
              <<Delete("Account",
                       IF realm.Account = << >> THEN Undefined ELSE realm.Account[1])>>)
    /\ UNCHANGED initialised

AccountDelete(name) ==
    /\ Method("Account.delete", <<name>>,
              <<Delete("Account", AccountGetObjectForId(realm, name))>>)
    /\ UNCHANGED initialised

\* Variant used to test the claims: the copy is created with the update flag.
AccountMigrateUpserting(from, to) ==
    LET accountData == AccountGetObjectForId(realm, from)
    IN  /\ Method("Account.migrate", <<from, to>>,
                  << Create("Account", Assign(accountData, [accountName |-> to]), TRUE),
                     Delete("Account", accountData) >>)
        /\ UNCHANGED initialised

\* Variant used to test the claims: copies under the new name, never deletes.
AccountMigrateCopyOnly(from, to) ==
    LET accountData == AccountGetObjectForId(realm, from)
    IN  /\ Method("Account.migrate", <<from, to>>,
                  <<Create("Account", Assign(accountData, [name |-> to]), FALSE)>>)
        /\ UNCHANGED initialised

AccountMigrate(from, to) ==
    LET accountData == AccountGetObjectForId(realm, from)
    IN  /\ Method("Account.migrate", <<from, to>>,
                  << Create("Account", Assign(accountData, [accountName |-> to]), FALSE),
                     Delete("Account", accountData) >>)
        /\ UNCHANGED initialised

---------------------------------------------------------------------------
(* Node.                                                                   *)

NodeGetObjectForId(r, id) == ObjectForPrimaryKey(r, "Node", id)

NodeAddCustomNode(url, pow) ==
    /\ Method("Node.addCustomNode", <<url, pow>>,
              <<Create("Node", [url |-> url, custom |-> TRUE, pow |-> pow], FALSE)>>)
    /\ UNCHANGED initialised

NodeDelete(url) ==
    /\ Method("Node.delete", <<url>>, <<Delete("Node", NodeGetObjectForId(realm, url))>>)
    /\ UNCHANGED initialised

\* Variant used to test the claims: never passes the update flag.
NodeAddNodesAlwaysInsert(nodes) ==
    IF Len(nodes) > 0
    THEN /\ Method("Node.addNodes", <<nodes>>,
                   [i \in 1..Len(nodes) |-> Create("Node", nodes[i], FALSE)])
         /\ UNCHANGED initialised
    ELSE /\ Call("Node.addNodes", <<nodes>>, NoWrite(realm), "returned", "threw")
         /\ UNCHANGED initialised

\* Variant used to test the claims: one transaction per node of the batch.
NodeAddNodesPerNode(nodes) ==
    LET existingUrls == {realm.Node[i].url : i \in 1..Len(realm.Node)}
    IN  /\ Call("Node.addNodes", <<nodes>>,
                IF Len(nodes) > 0
                THEN WritePerStep(realm,
                        [i \in 1..Len(nodes) |->
                            Create("Node", nodes[i], nodes[i].url \in existingUrls)])
                ELSE NoWrite(realm),
                "returned", "threw")
        /\ UNCHANGED initialised

NodeAddNodes(nodes) ==
    IF Len(nodes) > 0
    THEN LET existingUrls == {realm.Node[i].url : i \in 1..Len(realm.Node)}
         IN  /\ Method("Node.addNodes", <<nodes>>,
                       [i \in 1..Len(nodes) |->
                           Create("Node", nodes[i], nodes[i].url \in existingUrls)])
             /\ UNCHANGED initialised
    ELSE /\ Call("Node.addNodes", <<nodes>>, NoWrite(realm), "returned", "threw")
         /\ UNCHANGED initialised

---------------------------------------------------------------------------
(* Wallet.                                                                 *)

WalletGetObjectForId(r, id) == ObjectForPrimaryKey(r, "Wallet", id)

WalletSetOnboardingComplete ==
    /\ Method("Wallet.setOnboardingComplete", << >>,
              <<SetData("onboardingComplete", TRUE)>>)
    /\ UNCHANGED initialised

WalletUpdateRemotePowSetting(payload) ==
    /\ Method("Wallet.updateRemotePowSetting", <<payload>>,
              <<SetSetting("remotePoW", payload)>>)
    /\ UNCHANGED initialised

WalletUpdateAutoPromotionSetting(payload) ==
    /\ Method("Wallet.updateAutoPromotionSetting", <<payload>>,
              <<SetSetting("autoPromotion", payload)>>)
    /\ UNCHANGED initialised

WalletUpdateAutoNodeSwitchingSetting(payload) ==
    /\ Method("Wallet.updateAutoNodeSwitchingSetting", <<payload>>,
              <<SetSetting("autoNodeSwitching", payload)>>)
    /\ UNCHANGED initialised

WalletUpdateLockScreenTimeout(payload) ==
    /\ Method("Wallet.updateLockScreenTimeout", <<payload>>,
              <<SetSetting("lockScreenTimeout", payload)>>)
    /\ UNCHANGED initialised

\* Variant used to test the claims: the setter makes the row it needs.
WalletUpdateLocaleCreating(payload) ==
    /\ Method("Wallet.updateLocale", <<payload>>,
              <<Create("Wallet", NewWallet, TRUE), SetSetting("locale", payload)>>)
    /\ UNCHANGED initialised

WalletUpdateLocale(payload) ==
    /\ Method("Wallet.updateLocale", <<payload>>, <<SetSetting("locale", payload)>>)
    /\ UNCHANGED initialised

WalletUpdateMode(payload) ==
    /\ Method("Wallet.updateMode", <<payload>>, <<SetSetting("mode", payload)>>)
    /\ UNCHANGED initialised

WalletUpdateNode(payload) ==
    /\ Method("Wallet.updateNode", <<payload>>, <<SetSetting("node", payload)>>)
    /\ UNCHANGED initialised

WalletUpdateLanguage(payload) ==
    /\ Method("Wallet.updateLanguage", <<payload>>, <<SetSetting("language", payload)>>)
    /\ UNCHANGED initialised

\* Variant used to test the claims: one transaction per assignment.
WalletUpdateCurrencyDataPerField(payload) ==
    /\ Call("Wallet.updateCurrencyData", <<payload>>,
            WritePerStep(realm,
                << SetSettingFrom("currency", payload, "currency"),
                   SetSettingFrom("conversionRate", payload, "conversionRate"),
                   SetSettingFrom("availableCurrencies", payload,
                                  "availableCurrencies") >>),
            "returned", "threw")
    /\ UNCHANGED initialised

WalletUpdateCurrencyData(payload) ==
    /\ Method("Wallet.updateCurrencyData", <<payload>>,
              << SetSettingFrom("currency", payload, "currency"),
                 SetSettingFrom("conversionRate", payload, "conversionRate"),
                 SetSettingFrom("availableCurrencies", payload, "availableCurrencies") >>)
    /\ UNCHANGED initialised

WalletUpdateTheme(payload) ==
    /\ Method("Wallet.updateTheme", <<payload>>, <<SetSetting("themeName", payload)>>)
    /\ UNCHANGED initialised

\* Variant used to test the claims: the node is set, the flag is not.
WalletSetRandomlySelectedNodeOnly(payload) ==
    /\ Method("Wallet.setRandomlySelectedNode", <<payload>>,
              <<SetSetting("node", payload)>>)
    /\ UNCHANGED initialised

WalletSetRandomlySelectedNode(payload) ==
    /\ Method("Wallet.setRandomlySelectedNode", <<payload>>,
              <<SetSetting("node", payload), SetSetting("hasRandomizedNode", TRUE)>>)
    /\ UNCHANGED initialised

WalletUpdate2FASetting(payload) ==
    /\ Method("Wallet.update2FASetting", <<payload>>,
              <<SetSetting("is2FAEnabled", payload)>>)
    /\ UNCHANGED initialised

WalletUpdateFingerPrintAuthenticationSetting(payload) ==
    /\ Method("Wallet.updateFingerPrintAuthenticationSetting", <<payload>>,
              <<SetSetting("isFingerprintEnabled", payload)>>)
    /\ UNCHANGED initialised

WalletSetVersions(payload) ==
    /\ Method("Wallet.setVersions", <<payload>>,
              << SetSettingFrom("buildNumber", payload, "buildNumber"),
                 SetSettingFrom("version", payload, "version") >>)
    /\ UNCHANGED initialised

WalletAcceptTerms ==
    /\ Method("Wallet.acceptTerms", << >>, <<SetSetting("acceptedTerms", TRUE)>>)
    /\ UNCHANGED initialised

WalletAcceptPrivacyPolicy ==
    /\ Method("Wallet.acceptPrivacyPolicy", << >>,
              <<SetSetting("acceptedPrivacy", TRUE)>>)
    /\ UNCHANGED initialised

WalletToggleEmptyTransactionsDisplay ==
    /\ Method("Wallet.toggleEmptyTransactionsDisplay", << >>,
              <<ToggleSetting("hideEmptyTransactions")>>)
    /\ UNCHANGED initialised

WalletCompleteForcedPasswordUpdate ==
    /\ Method("Wallet.completeForcedPasswordUpdate", << >>,
              <<SetSetting("completedForcedPasswordUpdate", TRUE)>>)
    /\ UNCHANGED initialised

WalletUpdateByteTritSweepSetting(payload) ==
    /\ Method("Wallet.updateByteTritSweepSetting", <<payload>>,
              <<SetSetting("completedByteTritSweep", payload)>>)
    /\ UNCHANGED initialised

WalletUpdateTraySetting(payload) ==
    /\ Method("Wallet.updateTraySetting", <<payload>>,
              <<SetSetting("isTrayEnabled", payload)>>)
    /\ UNCHANGED initialised

WalletUpdateNotificationsSetting(payload) ==
    /\ Method("Wallet.updateNotificationsSetting", <<payload>>,
              <<SetNotification(payload.type, payload.enabled)>>)
    /\ UNCHANGED initialised

\* Variant used to test the claims: the entry goes to the front of the log.
WalletUpdateErrorLogUnshift(payload) ==
    LET w == LatestData(realm)
    IN  /\ Method("Wallet.updateErrorLog", <<payload>>,
                  <<SetData("errorLog",
                            <<payload>> \o (IF w = 0 THEN << >>
                                            ELSE realm.Wallet[w].errorLog))>>)
        /\ UNCHANGED initialised

WalletUpdateErrorLog(payload) ==
    /\ Method("Wallet.updateErrorLog", <<payload>>, <<PushErrorLog(payload)>>)
    /\ UNCHANGED initialised

\* Variant used to test the claims: returns quietly when the row is missing.
WalletClearErrorLogGuarded ==
    /\ IF LatestData(realm) = 0
       THEN Call("Wallet.clearErrorLog", << >>, NoWrite(realm), "returned", "threw")
       ELSE Method("Wallet.clearErrorLog", << >>, <<SetData("errorLog", << >>)>>)
    /\ UNCHANGED initialised

WalletClearErrorLog ==
    /\ Method("Wallet.clearErrorLog", << >>, <<SetData("errorLog", << >>)>>)
    /\ UNCHANGED initialised

\* Variant used to test the claims: creates without looking first.
createAlways(r, fault) == RealmWrite(r, <<Create("Wallet", NewWallet, FALSE)>>, fault)

\* Variant used to test the claims: the emptiness test negated.
createIfExists(r, fault) ==
    LET shouldCreate == ~IsEmpty(WalletGetObjectForId(r, WalletVersion))
    IN  IF shouldCreate
        THEN RealmWrite(r, <<Create("Wallet", NewWallet, FALSE)>>, fault)
        ELSE NoWrite(r)

\* What Wallet.createIfNotExists() does to store r.
createIfNotExists(r, fault) ==
    LET shouldCreate == IsEmpty(WalletGetObjectForId(r, WalletVersion))
    IN  IF shouldCreate
        THEN RealmWrite(r, <<Create("Wallet", NewWallet, FALSE)>>, fault)
        ELSE NoWrite(r)

WalletCreateIfNotExists ==
    /\ Call("Wallet.createIfNotExists", << >>,
            createIfNotExists(realm, storageFault), "returned", "threw")
    /\ UNCHANGED initialised

---------------------------------------------------------------------------
(* Lifecycle.  A promise executor runs synchronously inside the call; the  *)
(* callback given to then() runs later, as a microtask.                    *)

\* Variant used to test the claims: the Wallet rows survive.
purgeWriteKeepsWallet(r, fault) ==
    LET w == RealmWrite(r, <<DeleteAll>>, fault)
    IN  [w EXCEPT !.realm.Wallet = r.Wallet]

\* Variant used to test the claims: the callback of purge() goes on to
\* create the Wallet row in a transaction of its own.
purgeWriteThenCreate(r, fault) ==
    RealmWrite(r, <<DeleteAll, Write(<<Create("Wallet", NewWallet, FALSE)>>)>>, fault)

\* What the executor of purge() does to store r.
purgeWrite(r, fault) == RealmWrite(r, <<DeleteAll>>, fault)

purge ==
    /\ Call("purge", << >>, purgeWrite(realm, storageFault), "resolved", "rejected")
    /\ UNCHANGED initialised

\* Variant used to test the claims: the row is made anew on every call.
initialiseAnew ==
    LET stored == WalletGetObjectForId(realm, WalletVersion)
        w == RealmWrite(realm,
                        IF IsEmpty(stored)
                        THEN <<Create("Wallet", NewWallet, FALSE)>>
                        ELSE <<Delete("Wallet", stored),
                               Create("Wallet", NewWallet, FALSE)>>,
                        storageFault)
    IN  /\ Call("initialise", << >>, w, "resolved", "rejected")
        /\ initialised' = (initialised \/ ~w.threw)

\* Variant used to test the claims: no try/catch around createIfNotExists().
initialiseUnguarded ==
    LET w == createIfNotExists(realm, storageFault)
    IN  /\ Call("initialise", << >>, w, "resolved", "threw")
        /\ initialised' = (initialised \/ ~w.threw)

initialise ==
    LET w == createIfNotExists(realm, storageFault)
    IN  /\ Call("initialise", << >>, w, "resolved", "rejected")
        /\ initialised' = (initialised \/ ~w.threw)

\* reinitialise(): purge() runs now, its then-callback is queued.
reinitialise ==
    LET w == purgeWrite(realm, storageFault)
    IN  /\ nOps < MaxOps
        /\ nOps' = nOps + 1
        /\ realm' = w.realm
        /\ storageFault' = (storageFault /\ ~w.faulted)
        /\ microtasks' = Append(Disturbed(microtasks),
                                [purge |-> IF w.threw THEN "rejected" ELSE "resolved",
                                 callPre |-> realm, quiet |-> TRUE])
        /\ last' = [op |-> "reinitialise", args |-> << >>, outcome |-> "pending",
                    pre |-> realm, threw |-> w.threw, wrote |-> w.wrote,
                    applied |-> w.applied, faulted |-> w.faulted,
                    scopes |-> w.scopes,
                    prev |-> <<last.op, last.outcome, last.wrote>>, quiet |-> TRUE]
        /\ UNCHANGED <<initialised, bar>>

\* Variant used to test the claims: the then-callback does nothing.
reinitialiseThenNothing ==
    /\ microtasks # << >>
    /\ LET t == Head(microtasks)
           settled == IF t.purge = "resolved" THEN "resolved" ELSE "rejected"
       IN  /\ microtasks' = Disturbed(Tail(microtasks))
           /\ last' = [op |-> "reinitialise", args |-> << >>, outcome |-> settled,
                       pre |-> realm, callPre |-> t.callPre, threw |-> FALSE,
                       wrote |-> FALSE, applied |-> 0, faulted |-> FALSE,
                       scopes |-> 0,
                       prev |-> <<last.op, last.outcome, last.wrote>>,
                       quiet |-> t.quiet]
           /\ initialised' = initialised
    /\ UNCHANGED <<realm, storageFault, nOps, bar>>

\* Variant used to test the claims: whether to create the row is decided
\* from the store as it was when reinitialise() was called.
reinitialiseThenStale ==
    /\ microtasks # << >>
    /\ LET t == Head(microtasks)
           w == IF t.purge = "resolved"
                THEN IF IsEmpty(WalletGetObjectForId(t.callPre, WalletVersion))
                     THEN createIfNotExists(realm, storageFault)
                     ELSE NoWrite(realm)
                ELSE NoWrite(realm)
           settled == IF t.purge = "resolved" /\ ~w.threw
                      THEN "resolved" ELSE "rejected"
       IN  /\ realm' = w.realm
           /\ storageFault' = (storageFault /\ ~w.faulted)
           /\ microtasks' = Disturbed(Tail(microtasks))
           /\ last' = [op |-> "reinitialise", args |-> << >>, outcome |-> settled,
                       pre |-> realm, callPre |-> t.callPre, threw |-> w.threw,
                       wrote |-> w.wrote, applied |-> w.applied, faulted |-> w.faulted,
                       scopes |-> w.scopes,
                       prev |-> <<last.op, last.outcome, last.wrote>>,
                       quiet |-> t.quiet]
           /\ initialised' = (initialised \/ settled = "resolved")
    /\ UNCHANGED <<nOps, bar>>

\* Variant used to test the claims: initialise() runs whatever purge() did.
reinitialiseThenAlways ==
    /\ microtasks # << >>
    /\ LET t == Head(microtasks)
           w == createIfNotExists(realm, storageFault)
           settled == IF w.threw THEN "rejected" ELSE "resolved"
       IN  /\ realm' = w.realm
           /\ storageFault' = (storageFault /\ ~w.faulted)
           /\ microtasks' = Disturbed(Tail(microtasks))
           /\ last' = [op |-> "reinitialise", args |-> << >>, outcome |-> settled,
                       pre |-> realm, callPre |-> t.callPre, threw |-> w.threw,
                       wrote |-> w.wrote, applied |-> w.applied, faulted |-> w.faulted,
                       scopes |-> w.scopes,
                       prev |-> <<last.op, last.outcome, last.wrote>>,
                       quiet |-> t.quiet]
           /\ initialised' = (initialised \/ settled = "resolved")
    /\ UNCHANGED <<nOps, bar>>

\* The then-callback of the oldest pending reinitialise(): initialise()
\* when its purge() resolved; a rejection of purge() passes through.
reinitialiseThen ==
    /\ microtasks # << >>
    /\ LET t == Head(microtasks)
           w == IF t.purge = "resolved"
                THEN createIfNotExists(realm, storageFault)
                ELSE NoWrite(realm)
           settled == IF t.purge = "resolved" /\ ~w.threw
                      THEN "resolved" ELSE "rejected"
       IN  /\ realm' = w.realm
           /\ storageFault' = (storageFault /\ ~w.faulted)
           /\ microtasks' = Disturbed(Tail(microtasks))
           /\ last' = [op |-> "reinitialise", args |-> << >>, outcome |-> settled,
                       pre |-> realm, callPre |-> t.callPre, threw |-> w.threw,
                       wrote |-> w.wrote, applied |-> w.applied, faulted |-> w.faulted,
                       scopes |-> w.scopes,
                       prev |-> <<last.op, last.outcome, last.wrote>>,
                       quiet |-> t.quiet]
           /\ initialised' = (initialised \/ settled = "resolved")
    /\ UNCHANGED <<nOps, bar>>

\* The device starts failing: the next commit throws.
StorageFails ==
    /\ ~storageFault
    /\ nOps < MaxOps
    /\ storageFault' = TRUE
    /\ UNCHANGED <<realm, microtasks, last, initialised, nOps, bar>>

---------------------------------------------------------------------------

Next ==
    \/ \E data \in CreateDatas : AccountCreate(data)
    \/ \E name \in Names, data \in UpdateDatas : AccountUpdate(name, data)
    \/ \E name \in Names : AccountDelete(name)
    \/ \E from \in Names, to \in Names : AccountMigrate(from, to)
    \/ \E url \in URLs, pow \in BOOLEAN : NodeAddCustomNode(url, pow)
    \/ \E url \in URLs : NodeDelete(url)
    \/ \E nodes \in Batches : NodeAddNodes(nodes)
    \/ WalletSetOnboardingComplete
    \/ \E payload \in BOOLEAN : WalletUpdateRemotePowSetting(payload)
    \/ \E payload \in BOOLEAN : WalletUpdateAutoPromotionSetting(payload)
    \/ \E payload \in BOOLEAN : WalletUpdateAutoNodeSwitchingSetting(payload)
    \/ \E payload \in Strings : WalletUpdateLockScreenTimeout(payload)
    \/ \E payload \in Strings : WalletUpdateLocale(payload)
    \/ \E payload \in Strings : WalletUpdateMode(payload)
    \/ \E payload \in Strings : WalletUpdateNode(payload)
    \/ \E payload \in Strings : WalletUpdateLanguage(payload)
    \/ \E payload \in CurrencyPayloads : WalletUpdateCurrencyData(payload)
    \/ \E payload \in Strings : WalletUpdateTheme(payload)
    \/ \E payload \in Strings : WalletSetRandomlySelectedNode(payload)
    \/ \E payload \in BOOLEAN : WalletUpdate2FASetting(payload)
    \/ \E payload \in BOOLEAN : WalletUpdateFingerPrintAuthenticationSetting(payload)
    \/ \E payload \in VersionPayloads : WalletSetVersions(payload)
    \/ WalletAcceptTerms
    \/ WalletAcceptPrivacyPolicy
    \/ WalletToggleEmptyTransactionsDisplay
    \/ WalletCompleteForcedPasswordUpdate
    \/ \E payload \in BOOLEAN : WalletUpdateByteTritSweepSetting(payload)
    \/ \E payload \in BOOLEAN : WalletUpdateTraySetting(payload)
    \/ \E payload \in [type : NotificationTypes, enabled : BOOLEAN] :
            WalletUpdateNotificationsSetting(payload)
    \/ \E payload \in LogEntries : WalletUpdateErrorLog(payload)
    \/ WalletClearErrorLog
    \/ WalletCreateIfNotExists
    \/ purge
    \/ initialise
    \/ reinitialise
    \/ reinitialiseThen
    \/ StorageFails

Spec == Init /\ [][Next]_vars

\* The event loop runs every queued then-callback.
FairSpec == Spec /\ WF_vars(reinitialiseThen)

---------------------------------------------------------------------------
(* ProgressBar: handlers.  A handler is one step; the setState calls of a  *)
(* handler take effect together when it ends, so what it reads from        *)
(* this.state is the state of before the step.                             *)

resetSlider(st) ==
    [st EXCEPT !.sliderColor = "preSwipeColor",
               !.sliderPosition = AnimateTo(@, 0),
               !.sliderOpacity = AnimateTo(@, 100),
               !.textOpacity = AnimateTo(@, 100)]

onIncompleteSwipe(st) ==
    [st EXCEPT !.sliderPosition = AnimateTo(@, 0),
               !.sliderOpacity = AnimateTo(@, 100),
               !.textOpacity = AnimateTo(@, 100)]

onCompleteSwipe(st) ==
    [st EXCEPT !.sliderPosition = AnimateTo(@, FixedProps.width - FixedProps.height),
               !.sliderColor = "postSwipeColor"]

onInterupt(b) ==
    [b EXCEPT !.resetOf = IF @ = "none" THEN "none" ELSE "interrupted",
              !.state = resetSlider([@ EXCEPT !.progress = -100,
                                              !.inProgress = FALSE,
                                              !.progressPosition = "zero",
                                              !.sliderPosition = StopAnimation(@)])]

onProgressComplete(b) ==
    [b EXCEPT !.lottie = "reset",
              !.state.sliderAnimation = "sliderSuccessAnimation",
              !.state.shouldLoopSliderAnimation = "false",
              !.timers = @ \cup {"delaySliderOpacityIncreaseAnimation",
                                 "delaySuccessAnimation", "delaySliderReset"},
              !.resetOf = "own"]

\* onProgressStepChange(progressText), where this.state.progress is seen.
onProgressStepChange(b, seen, progressText) ==
    IF seen < 0
    THEN [b EXCEPT !.state.progressText = progressText,
                   !.state.textOpacity = AnimateTo(@, 100)]
    ELSE IF seen = 100
    THEN [b EXCEPT !.timers = @ \cup {"delayProgressTextFadeOut"}]
    ELSE [b EXCEPT !.timers = @ \cup {"delayProgressTextChange"},
                   !.timerText = progressText]

componentWillReceiveProps(newProps) ==
    LET changed == bar.props.progress # newProps.progress
        first   == changed /\ bar.props.progress < 0
        b1 == IF first
              THEN [bar EXCEPT !.state.inProgress = TRUE,
                               !.state.progressPosition = "moving",
                               !.lottie = "playing",
                               !.resetOf = IF @ = "interrupted" THEN "stale" ELSE @]
              ELSE bar
        b2 == IF changed
              THEN onProgressStepChange(
                      [b1 EXCEPT !.state.progress = newProps.progress],
                      bar.state.progress, newProps.progressText)
              ELSE b1
        b3 == IF /\ changed
                 /\ FixedProps.stepSize > 0
                 /\ newProps.progress = 100 - FixedProps.stepSize
              THEN onProgressComplete(b2)
              ELSE b2
        b4 == IF bar.props.interupt # newProps.interupt THEN onInterupt(b3) ELSE b3
    IN  /\ bar.mounted
        /\ bar' = [b4 EXCEPT !.props = newProps,
                             !.swiped = FALSE]
        /\ UNCHANGED <<realm, storageFault, microtasks, last, initialised, nOps>>

componentWillUnmount ==
    /\ bar.mounted
    /\ bar' = [bar EXCEPT !.mounted = FALSE, !.timers = @ \ TimerNames,
                          !.resetOf = "none",
                          !.swiped = FALSE]
    /\ UNCHANGED <<realm, storageFault, microtasks, last, initialised, nOps>>

\* A timer of the given name runs out and b is what its callback leaves.
TimerFires(name, b) ==
    /\ name \in bar.timers
    /\ bar' = [b EXCEPT !.timers = @ \ {name},
                        !.swiped = FALSE]
    /\ UNCHANGED <<realm, storageFault, microtasks, last, initialised, nOps>>

\* 900 ms after onProgressComplete.
delaySliderOpacityIncreaseAnimation ==
    /\ bar.mounted
    /\ TimerFires("delaySliderOpacityIncreaseAnimation",
                  [bar EXCEPT !.state.sliderOpacity = AnimateTo(@, 100)])

\* 1200 ms after onProgressComplete.
delaySuccessAnimation ==
    /\ bar.mounted
    /\ "delaySliderOpacityIncreaseAnimation" \notin bar.timers
    /\ TimerFires("delaySuccessAnimation", [bar EXCEPT !.lottie = "playing"])

\* 4000 ms after onProgressComplete.
delaySliderReset ==
    /\ bar.mounted
    /\ {"delaySliderOpacityIncreaseAnimation", "delaySuccessAnimation"}
          \cap bar.timers = {}
    /\ TimerFires("delaySliderReset",
                  [bar EXCEPT !.lottie = "reset",
                              !.resetOf = "none",
                              !.state = resetSlider(
                                  [@ EXCEPT !.progress = -100,
                                            !.inProgress = FALSE,
                                            !.sliderAnimation = "sliderLoadingAnimation",
                                            !.shouldLoopSliderAnimation = "true",
                                            !.progressPosition = "zero"])])

delayProgressTextFadeOut ==
    /\ bar.mounted
    /\ TimerFires("delayProgressTextFadeOut",
                  [bar EXCEPT !.state.textOpacity = AnimateTo(@, 0)])

\* The text fades out, is replaced, and fades in again.
delayProgressTextChange ==
    /\ bar.mounted
    /\ TimerFires("delayProgressTextChange",
                  [bar EXCEPT !.state.progressText = bar.timerText,
                              !.state.textOpacity = [at |-> 0, to |-> 100]])

\* The running animations of the slider and the text reach their end.
AnimationsEnd ==
    /\ bar.mounted
    /\ \E v \in {"sliderPosition", "sliderOpacity", "textOpacity"} :
          bar.state[v].at # bar.state[v].to
    /\ bar' = [bar EXCEPT !.swiped = FALSE,
                          !.state.sliderPosition = SetValue(@.to),
                          !.state.sliderOpacity = SetValue(@.to),
                          !.state.textOpacity = SetValue(@.to)]
    /\ UNCHANGED <<realm, storageFault, microtasks, last, initialised, nOps>>

onPanResponderMove(dx) ==
    LET T == bar.state.thresholdDistance
        moved == [bar.state EXCEPT
                     !.textOpacity = SetValue((100 * T - 200 * dx) \div T),
                     !.sliderOpacity = SetValue((100 * T - 40 * dx) \div T)]
    IN  /\ bar.mounted
        /\ bar' = [bar EXCEPT
                     !.dx = dx,
                     !.swiped = FALSE,
                     !.state = IF bar.state.inProgress THEN @
                               ELSE IF dx >= 0 /\ dx <= T
                               THEN [moved EXCEPT !.sliderPosition = SetValue(dx)]
                               ELSE moved]
        /\ UNCHANGED <<realm, storageFault, microtasks, last, initialised, nOps>>

\* The finger is lifted: gestureState.dx is the one of the last move, and
\* the next gesture starts afresh.
onPanResponderRelease ==
    LET releaseValue == bar.dx
        complete   == /\ ~bar.state.inProgress
                      /\ bar.dx > 0
                      /\ releaseValue >= bar.state.thresholdDistance
        incomplete == /\ ~bar.state.inProgress
                      /\ bar.dx > 0
                      /\ ~(releaseValue >= bar.state.thresholdDistance)
                      /\ releaseValue >= 0
    IN  /\ bar.mounted
        /\ bar' = [bar EXCEPT
                     !.dx = 0,
                     !.swiped = complete,
                     !.state = IF complete THEN onCompleteSwipe(@)
                               ELSE IF incomplete THEN onIncompleteSwipe(@)
                               ELSE @]
        /\ UNCHANGED <<realm, storageFault, microtasks, last, initialised, nOps>>

BarInit ==
    /\ realm = EmptyRealm
    /\ storageFault = FALSE
    /\ microtasks = << >>
    /\ last = [op |-> "open", args |-> << >>, outcome |-> "returned",
               threw |-> FALSE, wrote |-> FALSE, applied |-> 0, faulted |-> FALSE,
               scopes |-> 0, prev |-> <<"none", "none", FALSE>>, quiet |-> TRUE]
    /\ initialised = FALSE
    /\ nOps = 0
    /\ bar = Mounted

BarNext ==
    \/ \E newProps \in NewPropsValues : componentWillReceiveProps(newProps)
    \/ componentWillUnmount
    \/ delaySliderOpacityIncreaseAnimation
    \/ delaySuccessAnimation
    \/ delaySliderReset
    \/ delayProgressTextFadeOut
    \/ delayProgressTextChange
    \/ AnimationsEnd
    \/ \E dx \in Dxs : onPanResponderMove(dx)
    \/ onPanResponderRelease

BarSpec == BarInit /\ [][BarNext]_vars

---------------------------------------------------------------------------
(* Vocabulary of the claims.                                               *)

Stored(r, type, key) == IndexOf(r[type], PrimaryKey[type], key) # 0

SameObject(a, b) == DOMAIN a = DOMAIN b /\ \A p \in DOMAIN a : a[p] = b[p]

\* Number of stored objects of a type with the given primary key.
Count(r, type, key) ==
    Cardinality({i \in 1..Len(r[type]) : r[type][i][PrimaryKey[type]] = key})

Raised == last.outcome \in {"threw", "rejected"}

---------------------------------------------------------------------------
(* C1: Account.migrate(from, to), called when `from` is stored and `to` is *)
(* not (and the device does not fail), ends with `from` absent and `to`    *)
(* present with the addressData and transactions `from` held before.       *)

C1_MigrateMovesAccount ==
    LET from == last.args[1]
        to   == last.args[2]
    IN  ( /\ last.op = "Account.migrate"
          /\ ~last.faulted
          /\ Stored(last.pre, "Account", from)
          /\ ~Stored(last.pre, "Account", to) )
        => /\ ~Stored(realm, "Account", from)
           /\ Stored(realm, "Account", to)
           /\ AccountGetObjectForId(realm, to).addressData
                = AccountGetObjectForId(last.pre, from).addressData
           /\ AccountGetObjectForId(realm, to).transactions
                = AccountGetObjectForId(last.pre, from).transactions

---------------------------------------------------------------------------
(* C2: every write scope is all-or-nothing.  Whenever the transaction of a *)
(* mutating call raised, also after some of its writes were performed, the *)
(* caller got the error (thrown, or as a rejection) and the stored         *)
(* accounts, nodes and wallet rows are those of before the call.           *)

C2_WriteScopeAllOrNothing ==
    (last.op \notin {"open", "reinitialise"} /\ last.threw)
        => Raised /\ realm = last.pre

\* A call raised after it had performed some of its writes.
C2_Witness ==
    /\ last.op \notin {"open", "reinitialise"}
    /\ last.threw
    /\ last.applied > 0
    /\ Raised

---------------------------------------------------------------------------
(* C3: Account.migrate(from, to) of a stored `from` is atomic: afterwards, *)
(* whether it returned or threw, either `from` is stored unchanged and no  *)
(* record was created at `to`, or `to` holds the data and `from` is gone;  *)
(* never both, never neither.                                              *)

C3_MigrateAtomic ==
    LET from   == last.args[1]
        to     == last.args[2]
        before == AccountGetObjectForId(last.pre, from)
        old    == /\ SameObject(AccountGetObjectForId(realm, from), before)
                  /\ SameObject(AccountGetObjectForId(realm, to),
                                AccountGetObjectForId(last.pre, to))
        new    == /\ ~Stored(realm, "Account", from)
                  /\ Stored(realm, "Account", to)
                  /\ AccountGetObjectForId(realm, to).addressData = before.addressData
                  /\ AccountGetObjectForId(realm, to).transactions = before.transactions
    IN  (last.op = "Account.migrate" /\ Stored(last.pre, "Account", from))
        => (old \/ new) /\ ~(old /\ new)

\* A migrate of a stored account to a free name has run.
C3_Witness ==
    /\ last.op = "Account.migrate"
    /\ Stored(last.pre, "Account", last.args[1])
    /\ ~Stored(last.pre, "Account", last.args[2])
    /\ Count(realm, "Account", last.args[1]) + Count(realm, "Account", last.args[2]) = 1

---------------------------------------------------------------------------
(* Vocabulary of the Node claims.                                          *)

InputUrls(nodes) == {nodes[i].url : i \in 1..Len(nodes)}

StoredUrls(r) == {r.Node[i].url : i \in 1..Len(r.Node)}

Latest(S) == CHOOSE i \in S : \A j \in S : j <= i

\* The value a per-node upsert of the batch leaves in property p of the node
\* with URL u: the one the last input for u gives, else the one stored
\* before, else the schema's default.
Expected(nodes, pre, u, p) ==
    LET given == {i \in 1..Len(nodes) : nodes[i].url = u /\ p \in DOMAIN nodes[i]}
    IN  IF given # {} THEN nodes[Latest(given)][p]
        ELSE IF Stored(pre, "Node", u) THEN NodeGetObjectForId(pre, u)[p]
        ELSE NodeDefaults[p]

\* post is pre with every node of the batch upserted.
Upserted(nodes, pre, post) ==
    /\ \A u \in InputUrls(nodes) :
          /\ Count(post, "Node", u) = 1
          /\ \A p \in {"custom", "pow"} :
                NodeGetObjectForId(post, u)[p] = Expected(nodes, pre, u, p)
    /\ Len(post.Node) >= Len(pre.Node)
    /\ \A i \in 1..Len(pre.Node) :
          /\ post.Node[i].url = pre.Node[i].url
          /\ pre.Node[i].url \notin InputUrls(nodes) => post.Node[i] = pre.Node[i]
    /\ StoredUrls(post) = StoredUrls(pre) \cup InputUrls(nodes)
    /\ Len(post.Node) = Cardinality(StoredUrls(post))

\* The batch holds the same not-yet-stored URL twice.
RepeatsNewUrl(nodes, pre) ==
    \E i, j \in 1..Len(nodes) :
        i < j /\ nodes[i].url = nodes[j].url /\ ~Stored(pre, "Node", nodes[i].url)

---------------------------------------------------------------------------
(* C4, as stated: Node.addNodes(nodes) is a per-node upsert for every      *)
(* batch: stored URLs are replaced in place, the other inputs inserted,    *)
(* the other stored nodes unchanged, one node per distinct URL.            *)

C4_AddNodesUpsertsEveryBatch ==
    (last.op = "Node.addNodes" /\ ~last.faulted)
        => last.outcome = "returned" /\ Upserted(last.args[1], last.pre, realm)

(* C4, amended: the same for every batch that does not hold the same       *)
(* not-yet-stored URL twice; a batch that does throws and leaves the node  *)
(* list as it was.                                                         *)

C4_AddNodesUpsertsUnlessNewUrlRepeated ==
    (last.op = "Node.addNodes" /\ ~last.faulted)
        => IF RepeatsNewUrl(last.args[1], last.pre)
           THEN last.outcome = "threw" /\ realm = last.pre
           ELSE last.outcome = "returned" /\ Upserted(last.args[1], last.pre, realm)

\* addNodes([u1 custom, u2 not custom]) then addNodes([u1 not custom]).
C4_Witness ==
    /\ last.op = "Node.addNodes"
    /\ last.prev = <<"Node.addNodes", "returned", TRUE>>
    /\ last.outcome = "returned"
    /\ Len(last.args[1]) = 1
    /\ last.args[1][1] = [url |-> "u1", custom |-> FALSE]
    /\ Len(last.pre.Node) = 2
    /\ NodeGetObjectForId(last.pre, "u1").custom
    /\ Len(realm.Node) = 2
    /\ ~NodeGetObjectForId(realm, "u1").custom
    /\ NodeGetObjectForId(realm, "u2") = NodeGetObjectForId(last.pre, "u2")

---------------------------------------------------------------------------
(* C5: Node.addCustomNode(url, pow) with a URL that is already stored      *)
(* updates that node in place (custom = true, pow as given) rather than    *)
(* failing; afterwards exactly one stored node has that URL.               *)

C5_AddCustomNodeUpdatesStoredUrl ==
    LET url == last.args[1]
        pow == last.args[2]
    IN  ( /\ last.op = "Node.addCustomNode"
          /\ ~last.faulted
          /\ Stored(last.pre, "Node", url) )
        => /\ last.outcome = "returned"
           /\ Count(realm, "Node", url) = 1
           /\ NodeGetObjectForId(realm, url).custom
           /\ NodeGetObjectForId(realm, url).pow = pow

---------------------------------------------------------------------------
(* C6: Node.addNodes(nodes) is one write scope for the whole batch: when   *)
(* the insert or update of any node fails, the call throws and the store   *)
(* equals its value before the call; otherwise every node of the batch is  *)
(* applied.  A partly applied batch is never observable.                   *)

C6_AddNodesBatchIsOneScope ==
    last.op = "Node.addNodes"
        => IF last.threw
           THEN last.outcome = "threw" /\ realm = last.pre
           ELSE Upserted(last.args[1], last.pre, realm)

\* A batch that repeats a not-yet-stored URL failed at its second insert.
C6_Witness ==
    /\ last.op = "Node.addNodes"
    /\ RepeatsNewUrl(last.args[1], last.pre)
    /\ last.threw
    /\ ~last.faulted
    /\ last.applied >= 1
    /\ realm.Node = last.pre.Node

---------------------------------------------------------------------------
(* Vocabulary of the Wallet and lifecycle claims.                          *)

\* The Wallet object as createIfNotExists() creates it.
FreshWallet ==
    [version |-> SCHEMA_VERSION, onboardingComplete |-> FALSE, errorLog |-> << >>,
     settings |-> WalletSettingsDefaults]

\* Positions of the Wallet rows of the current schema version.
CurrentWallets(r) == {i \in 1..Len(r.Wallet) : r.Wallet[i].version = SCHEMA_VERSION}

ExactlyOneWallet(r) == Cardinality(CurrentWallets(r)) = 1

AllEmpty(r) == r.Account = << >> /\ r.Node = << >> /\ r.Wallet = << >>

---------------------------------------------------------------------------
(* C7: reinitialise() on a store holding any accounts, nodes and Wallet    *)
(* state, with no other call running before it settles, resolves with no   *)
(* account, no node and exactly one Wallet row, freshly created: default   *)
(* settings, no notification entry, empty errorLog.                        *)

C7_ReinitialiseLeavesFreshStore ==
    (last.op = "reinitialise" /\ last.outcome = "resolved" /\ last.quiet)
        => /\ realm.Account = << >>
           /\ realm.Node = << >>
           /\ realm.Wallet = <<FreshWallet>>

\* reinitialise() resolved on a store that held an account, a node and a
\* Wallet row with changed settings.
C7_Witness ==
    /\ last.op = "reinitialise"
    /\ last.outcome = "resolved"
    /\ last.quiet
    /\ Len(last.callPre.Account) >= 1
    /\ Len(last.callPre.Node) >= 1
    /\ Len(last.callPre.Wallet) = 1
    /\ last.callPre.Wallet[1] # FreshWallet
    /\ realm.Wallet = <<FreshWallet>>

---------------------------------------------------------------------------
(* C8: Wallet.createIfNotExists() is idempotent: a call that returns       *)
(* leaves exactly one Wallet row of the current version, and a call that   *)
(* directly follows one that returned opens no transaction and changes     *)
(* nothing.                                                                *)

C8_CreateIfNotExistsIdempotent ==
    last.op = "Wallet.createIfNotExists"
        => /\ last.outcome = "returned" => ExactlyOneWallet(realm)
           /\ (last.prev[1] = "Wallet.createIfNotExists" /\ last.prev[2] = "returned")
                 => /\ last.outcome = "returned"
                    /\ ~last.wrote
                    /\ realm = last.pre

\* A second call right after the call that created the row.
C8_Witness ==
    /\ last.op = "Wallet.createIfNotExists"
    /\ last.prev = <<"Wallet.createIfNotExists", "returned", TRUE>>
    /\ ~last.wrote
    /\ ExactlyOneWallet(realm)

---------------------------------------------------------------------------
(* C9, as stated: in every state after the first initialise() resolved     *)
(* there is exactly one Wallet row of the current version.                 *)

C9_WalletSingletonAtAnyTime == initialised => ExactlyOneWallet(realm)

(* C9, amended: every Wallet row is of the current version and there is at *)
(* most one; there is exactly one when initialise() resolves; and once     *)
(* there is one it stays through every call but purge() and                *)
(* reinitialise(), which delete it.                                        *)

\* The step is a call of purge(), or the call of reinitialise().
Purging ==
    /\ last' # last
    /\ \/ last'.op = "purge"
       \/ last'.op = "reinitialise" /\ last'.outcome = "pending"

C9_WalletSingletonUntilPurged ==
    /\ [](/\ Len(realm.Wallet) <= 1
          /\ \A i \in 1..Len(realm.Wallet) : realm.Wallet[i].version = SCHEMA_VERSION
          /\ (last.op = "initialise" /\ last.outcome = "resolved")
                => ExactlyOneWallet(realm))
    /\ [][(ExactlyOneWallet(realm) /\ ~Purging) => ExactlyOneWallet(realm')]_vars

\* The row made by initialise() is still there after a later call.
C9_Witness ==
    /\ initialised
    /\ last.prev[1] = "initialise"
    /\ last.op = "Account.create"
    /\ last.outcome = "returned"
    /\ ExactlyOneWallet(realm)

---------------------------------------------------------------------------
(* C10: purge() deletes the records of every kind in one write scope:      *)
(* when it resolves, the account, node and Wallet lists are empty; when it *)
(* rejects, the store is as before the call; nothing in between.           *)

C10_PurgeAllOrNothing ==
    last.op = "purge"
        => \/ last.outcome = "resolved" /\ ~last.threw /\ AllEmpty(realm)
           \/ last.outcome = "rejected" /\ last.threw /\ realm = last.pre

\* purge() resolved on a store that held records of all three kinds.
C10_Witness ==
    /\ last.op = "purge"
    /\ last.outcome = "resolved"
    /\ Len(last.pre.Account) >= 1
    /\ Len(last.pre.Node) >= 1
    /\ Len(last.pre.Wallet) >= 1
    /\ AllEmpty(realm)

---------------------------------------------------------------------------
(* C11, as stated: Account.update(name, data) on a stored name leaves      *)
(* exactly one account with that name, and every field of it has the value *)
(* data gives; a field data omits keeps nothing of the previous record.    *)

C11_UpdateReplacesWholeRecord ==
    LET name == last.args[1]
        data == last.args[2]
        now  == AccountGetObjectForId(realm, name)
    IN  ( /\ last.op = "Account.update"
          /\ ~last.faulted
          /\ Stored(last.pre, "Account", name) )
        => /\ last.outcome = "returned"
           /\ Count(realm, "Account", name) = 1
           /\ \A p \in DOMAIN AccountDefaults :
                 now[p] = IF p \in DOMAIN data THEN data[p] ELSE AccountDefaults[p]

(* C11, amended: Account.update(name, data) on a stored name leaves        *)
(* exactly one account with that name.  When data carries no other name,   *)
(* every field data gives has the given value and every field data omits   *)
(* keeps the value stored before; when data carries another name, the      *)
(* account stored under the name argument is left as it was.               *)

C11_UpdateMergesIntoRecord ==
    LET name == last.args[1]
        data == last.args[2]
        was  == AccountGetObjectForId(last.pre, name)
        now  == AccountGetObjectForId(realm, name)
    IN  ( /\ last.op = "Account.update"
          /\ ~last.faulted
          /\ Stored(last.pre, "Account", name) )
        => /\ last.outcome = "returned"
           /\ Count(realm, "Account", name) = 1
           /\ IF "name" \in DOMAIN data /\ data.name # name
              THEN SameObject(now, was)
              ELSE \A p \in DOMAIN AccountDefaults :
                      now[p] = IF p \in DOMAIN data THEN data[p] ELSE was[p]

\* An update that gives addressData only kept the stored transactions.
C11_Witness ==
    /\ last.op = "Account.update"
    /\ last.outcome = "returned"
    /\ last.args[2] = [addressData |-> {"A3"}]
    /\ Stored(last.pre, "Account", last.args[1])
    /\ AccountGetObjectForId(last.pre, last.args[1]).transactions = {"T1"}
    /\ AccountGetObjectForId(realm, last.args[1]).transactions = {"T1"}
    /\ AccountGetObjectForId(realm, last.args[1]).addressData = {"A3"}

---------------------------------------------------------------------------
(* C12: Account.create(data) with a name that is already stored throws to  *)
(* its caller, and the stored account of that name and the rest of the     *)
(* store are as before the call.                                           *)

C12_CreateDuplicateFails ==
    (last.op = "Account.create" /\ Stored(last.pre, "Account", last.args[1].name))
        => /\ last.outcome = "threw"
           /\ SameObject(AccountGetObjectForId(realm, last.args[1].name),
                         AccountGetObjectForId(last.pre, last.args[1].name))
           /\ realm = last.pre

\* A create with other field values for a stored name threw on that name.
C12_Witness ==
    /\ last.op = "Account.create"
    /\ Stored(last.pre, "Account", last.args[1].name)
    /\ last.args[1].addressData
          # AccountGetObjectForId(last.pre, last.args[1].name).addressData
    /\ ~last.faulted
    /\ last.outcome = "threw"
    /\ Count(realm, "Account", last.args[1].name) = 1

---------------------------------------------------------------------------
(* C13: primary keys are unique in every reachable state: after any        *)
(* sequence of repository and lifecycle calls, failed ones included, no    *)
(* two stored accounts share a name and no two stored nodes share a URL.   *)

C13_PrimaryKeysUnique ==
    /\ \A i, j \in 1..Len(realm.Account) :
          realm.Account[i].name = realm.Account[j].name => i = j
    /\ \A i, j \in 1..Len(realm.Node) :
          realm.Node[i].url = realm.Node[j].url => i = j

\* A call that tried to store a key a second time has failed, with two
\* accounts or two nodes stored.
C13_Witness ==
    /\ last.op \in {"Account.create", "Account.migrate", "Node.addCustomNode",
                    "Node.addNodes"}
    /\ last.threw
    /\ ~last.faulted
    /\ Len(realm.Account) = 2 \/ Len(realm.Node) = 2

---------------------------------------------------------------------------
(* C14: Wallet.createIfNotExists is the sole creation path of Wallet rows: *)
(* in every reachable state there is at most one Wallet row and its key is *)
(* the current schema version, and a step that adds a Wallet row is a call *)
(* of createIfNotExists, directly or through initialise or reinitialise.   *)

C14_CreateIfNotExistsSoleCreationPath ==
    /\ [](/\ Len(realm.Wallet) <= 1
          /\ \A i \in 1..Len(realm.Wallet) : realm.Wallet[i].version = SCHEMA_VERSION)
    /\ [][Len(realm'.Wallet) > Len(realm.Wallet)
            => /\ last'.op \in {"Wallet.createIfNotExists", "initialise", "reinitialise"}
               /\ last'.pre = realm
               /\ last'.wrote
               /\ realm'.Wallet = <<FreshWallet>>]_vars

\* A setter failed on a store without a Wallet row and made none; the
\* initialise() after it made the row.
C14_Witness ==
    /\ last.op = "initialise"
    /\ last.prev[1] \notin {"open", "Wallet.createIfNotExists", "initialise",
                            "reinitialise", "purge"}
    /\ last.prev[2] = "threw"
    /\ last.pre.Wallet = << >>
    /\ realm.Wallet = <<FreshWallet>>

---------------------------------------------------------------------------
(* C15: for Account and Node, creating a record under a key that is not    *)
(* stored yet (Account.create, Node.addCustomNode) and then reading it by  *)
(* that key (getObjectForId) gives a record equal to the input, field for  *)
(* field.                                                                  *)

C15_CreateThenGetRoundTrip ==
    /\ ( /\ last.op = "Account.create"
         /\ ~last.faulted
         /\ ~Stored(last.pre, "Account", last.args[1].name) )
       => LET data == last.args[1]
              got  == AccountGetObjectForId(realm, data.name)
          IN  /\ last.outcome = "returned"
              /\ ~IsEmpty(got)
              /\ \A p \in DOMAIN data : p \in DOMAIN got /\ got[p] = data[p]
    /\ ( /\ last.op = "Node.addCustomNode"
         /\ ~last.faulted
         /\ ~Stored(last.pre, "Node", last.args[1]) )
       => /\ last.outcome = "returned"
          /\ SameObject(NodeGetObjectForId(realm, last.args[1]),
                        [url |-> last.args[1], custom |-> TRUE, pow |-> last.args[2]])

\* An account was created under a new name next to a stored one and reads
\* back with the values given.
C15_Witness ==
    /\ last.op = "Account.create"
    /\ last.outcome = "returned"
    /\ Len(last.pre.Account) = 1
    /\ ~Stored(last.pre, "Account", last.args[1].name)
    /\ AccountGetObjectForId(realm, last.args[1].name).addressData
          = last.args[1].addressData
    /\ AccountGetObjectForId(realm, last.args[1].name).addressData # {}

---------------------------------------------------------------------------
\* post is pre without the object of the given key, all else as it was.
Removed(type, key, pre, post) ==
    /\ IsEmpty(ObjectForPrimaryKey(post, type, key))
    /\ Len(post[type]) = Len(pre[type]) - 1
    /\ \A i \in 1..Len(pre[type]) :
          pre[type][i][PrimaryKey[type]] # key
            => SameObject(ObjectForPrimaryKey(post, type,
                                              pre[type][i][PrimaryKey[type]]),
                          pre[type][i])
    /\ \A t \in DOMAIN pre : t # type => post[t] = pre[t]

---------------------------------------------------------------------------
(* C16: for Account and Node, delete(key) of a stored key followed by      *)
(* getObjectForId(key) gives absence, and every record with another key    *)
(* is unchanged.                                                           *)

C16_DeleteThenGetAbsent ==
    /\ ( /\ last.op = "Account.delete"
         /\ ~last.faulted
         /\ Stored(last.pre, "Account", last.args[1]) )
       => /\ last.outcome = "returned"
          /\ Removed("Account", last.args[1], last.pre, realm)
    /\ ( /\ last.op = "Node.delete"
         /\ ~last.faulted
         /\ Stored(last.pre, "Node", last.args[1]) )
       => /\ last.outcome = "returned"
          /\ Removed("Node", last.args[1], last.pre, realm)

\* The account stored second of two was deleted; the other one is there.
C16_Witness ==
    /\ last.op = "Account.delete"
    /\ last.outcome = "returned"
    /\ Len(last.pre.Account) = 2
    /\ last.pre.Account[2].name = last.args[1]
    /\ IsEmpty(AccountGetObjectForId(realm, last.args[1]))
    /\ realm.Account = <<last.pre.Account[1]>>

---------------------------------------------------------------------------
(* C17: reinitialise() sequences purge strictly before initialise.  The    *)
(* step that calls it runs purge() only and defers the rest; the deferred  *)
(* step runs the createIfNotExists of initialise() only when that purge()  *)
(* had committed, and when purge() rejected it runs nothing, changes       *)
(* nothing and reinitialise() rejects.                                     *)

C17_ReinitialisePurgesThenInitialises ==
    [][ /\ Len(microtasks') > Len(microtasks)
           => /\ last'.op = "reinitialise" /\ last'.outcome = "pending"
              /\ IF last'.threw THEN realm' = realm ELSE AllEmpty(realm')
              /\ microtasks'[Len(microtasks')].purge
                    = IF last'.threw THEN "rejected" ELSE "resolved"
        /\ Len(microtasks') < Len(microtasks)
           => /\ last'.op = "reinitialise" /\ last'.outcome # "pending"
              /\ Head(microtasks).purge = "rejected"
                    => /\ ~last'.wrote
                       /\ realm' = realm
                       /\ last'.outcome = "rejected"
              /\ Head(microtasks).purge = "resolved"
                    => /\ realm' = createIfNotExists(realm, storageFault).realm
                       /\ last'.outcome = "resolved" <=> ~last'.threw ]_vars

\* purge() failed, so reinitialise() rejected with the store as it was when
\* it was called, records and all.
C17_Witness ==
    /\ last.op = "reinitialise"
    /\ last.outcome = "rejected"
    /\ last.quiet
    /\ ~last.wrote
    /\ realm = last.callPre
    /\ Len(realm.Account) >= 1

---------------------------------------------------------------------------
(* C18: write scopes are strictly serialized.  No step of a repository or  *)
(* lifecycle operation asks for a write scope while one is open: each call *)
(* opens at most one, closed again when the step ends, so no nested        *)
(* transaction error comes from the repositories themselves; this for      *)
(* every interleaving of initialise, purge and reinitialise calls with     *)
(* repository calls.                                                       *)

C18_WriteScopesSerialized ==
    /\ last.scopes <= 1
    /\ last.wrote <=> last.scopes = 1

\* A repository call committed its write scope between the purge and the
\* initialise of a pending reinitialise().
C18_Witness ==
    /\ microtasks # << >>
    /\ ~Head(microtasks).quiet
    /\ last.op \notin {"reinitialise", "purge", "initialise"}
    /\ last.outcome = "returned"
    /\ last.scopes = 1

---------------------------------------------------------------------------
(* C19: Account.update(name, data) touches no record but the one keyed by  *)
(* its name argument, whatever data holds, a name of its own included: no  *)
(* account with another name is created or modified.                       *)

C19_UpdateTouchesOnlyNamedRecord ==
    (last.op = "Account.update" /\ ~last.faulted)
        => \A other \in Names \ {last.args[1]} :
              SameObject(AccountGetObjectForId(realm, other),
                         AccountGetObjectForId(last.pre, other))

---------------------------------------------------------------------------
\* The setters of the Wallet model, by the name of the call.
WalletSetters ==
    { "Wallet.setOnboardingComplete", "Wallet.updateRemotePowSetting",
      "Wallet.updateAutoPromotionSetting", "Wallet.updateAutoNodeSwitchingSetting",
      "Wallet.updateLockScreenTimeout", "Wallet.updateLocale", "Wallet.updateMode",
      "Wallet.updateNode", "Wallet.updateLanguage", "Wallet.updateCurrencyData",
      "Wallet.updateTheme", "Wallet.setRandomlySelectedNode",
      "Wallet.update2FASetting", "Wallet.updateFingerPrintAuthenticationSetting",
      "Wallet.setVersions", "Wallet.acceptTerms", "Wallet.acceptPrivacyPolicy",
      "Wallet.toggleEmptyTransactionsDisplay",
      "Wallet.completeForcedPasswordUpdate", "Wallet.updateByteTritSweepSetting",
      "Wallet.updateTraySetting", "Wallet.updateNotificationsSetting",
      "Wallet.updateErrorLog", "Wallet.clearErrorLog" }

---------------------------------------------------------------------------
(* C20: when no Wallet row of the current version is stored (before the    *)
(* first initialise, or after a purge), every Wallet setter throws to its  *)
(* caller and leaves the store as it was; it creates no Wallet row.        *)

C20_SettersFailWithoutWalletRow ==
    ( /\ last.op \in WalletSetters
      /\ IsEmpty(WalletGetObjectForId(last.pre, WalletVersion)) )
        => /\ last.outcome = "threw"
           /\ realm = last.pre
           /\ realm.Wallet = << >>

\* A setter was called right after a purge() that removed the Wallet row.
C20_Witness ==
    /\ last.op \in WalletSetters
    /\ last.prev = <<"purge", "resolved", TRUE>>
    /\ last.outcome = "threw"
    /\ last.applied = 0
    /\ ~last.faulted
    /\ realm.Wallet = << >>

---------------------------------------------------------------------------
(* Vocabulary of the setter claims.                                        *)

\* The settings fields a setter writes, with the values it writes, given
\* the arguments of the call and the Wallet row stored before it.
SettingsWritten(op, args, was) ==
    CASE op = "Wallet.updateRemotePowSetting" -> [remotePoW |-> args[1]]
      [] op = "Wallet.updateAutoPromotionSetting" -> [autoPromotion |-> args[1]]
      [] op = "Wallet.updateAutoNodeSwitchingSetting" -> [autoNodeSwitching |-> args[1]]
      [] op = "Wallet.updateLockScreenTimeout" -> [lockScreenTimeout |-> args[1]]
      [] op = "Wallet.updateLocale" -> [locale |-> args[1]]
      [] op = "Wallet.updateMode" -> [mode |-> args[1]]
      [] op = "Wallet.updateNode" -> [node |-> args[1]]
      [] op = "Wallet.updateLanguage" -> [language |-> args[1]]
      [] op = "Wallet.updateCurrencyData" ->
            [currency |-> args[1].currency,
             conversionRate |-> args[1].conversionRate,
             availableCurrencies |-> args[1].availableCurrencies]
      [] op = "Wallet.updateTheme" -> [themeName |-> args[1]]
      [] op = "Wallet.setRandomlySelectedNode" ->
            [node |-> args[1], hasRandomizedNode |-> TRUE]
      [] op = "Wallet.update2FASetting" -> [is2FAEnabled |-> args[1]]
      [] op = "Wallet.updateFingerPrintAuthenticationSetting" ->
            [isFingerprintEnabled |-> args[1]]
      [] op = "Wallet.setVersions" ->
            [buildNumber |-> args[1].buildNumber, version |-> args[1].version]
      [] op = "Wallet.acceptTerms" -> [acceptedTerms |-> TRUE]
      [] op = "Wallet.acceptPrivacyPolicy" -> [acceptedPrivacy |-> TRUE]
      [] op = "Wallet.toggleEmptyTransactionsDisplay" ->
            [hideEmptyTransactions |-> ~was.settings.hideEmptyTransactions]
      [] op = "Wallet.completeForcedPasswordUpdate" ->
            [completedForcedPasswordUpdate |-> TRUE]
      [] op = "Wallet.updateByteTritSweepSetting" -> [completedByteTritSweep |-> args[1]]
      [] op = "Wallet.updateTraySetting" -> [isTrayEnabled |-> args[1]]
      [] op = "Wallet.updateNotificationsSetting" ->
            [notifications |->
                [t \in DOMAIN was.settings.notifications \cup {args[1].type} |->
                    IF t = args[1].type THEN args[1].enabled
                    ELSE was.settings.notifications[t]]]
      [] OTHER -> << >>

\* The same for the fields of the Wallet row itself.
DataWritten(op, args, was) ==
    CASE op = "Wallet.setOnboardingComplete" -> [onboardingComplete |-> TRUE]
      [] op = "Wallet.updateErrorLog" -> [errorLog |-> was.errorLog \o <<args[1]>>]
      [] op = "Wallet.clearErrorLog" -> [errorLog |-> << >>]
      [] OTHER -> << >>

\* The fields of the Wallet row, settings included, whose values differ.
ChangedFields(was, now) ==
    {<<"data", p>> : p \in {q \in {"version", "onboardingComplete", "errorLog"} :
                                was[q] # now[q]}}
      \cup {<<"settings", p>> : p \in {q \in DOMAIN WalletSettingsDefaults :
                                          was.settings[q] # now.settings[q]}}

\* A setter returned: the accounts, the nodes and the fields of the Wallet
\* row it does not write are as before, the fields it writes hold the values.
SetterWroteItsFields ==
    LET was == WalletGetObjectForId(last.pre, WalletVersion)
        now == WalletGetObjectForId(realm, WalletVersion)
        ws  == SettingsWritten(last.op, last.args, was)
        wd  == DataWritten(last.op, last.args, was)
    IN  /\ realm.Account = last.pre.Account
        /\ realm.Node = last.pre.Node
        /\ Len(realm.Wallet) = Len(last.pre.Wallet)
        /\ \A p \in {"version", "onboardingComplete", "errorLog"} :
              now[p] = IF p \in DOMAIN wd THEN wd[p] ELSE was[p]
        /\ DOMAIN now.settings = DOMAIN was.settings
        /\ \A p \in DOMAIN was.settings :
              now.settings[p] = IF p \in DOMAIN ws THEN ws[p] ELSE was.settings[p]

---------------------------------------------------------------------------
(* C21, as stated: every Wallet setter is a single-field mutation: after a *)
(* call that returned, the field it names holds the payload, and every     *)
(* other field of the Wallet row and all accounts and nodes are unchanged, *)
(* so that at most one field of the row differs from before.               *)

C21_SettersWriteOneField ==
    (last.op \in WalletSetters /\ last.outcome = "returned")
        => /\ SetterWroteItsFields
           /\ Cardinality(ChangedFields(WalletGetObjectForId(last.pre, WalletVersion),
                                        WalletGetObjectForId(realm, WalletVersion))) <= 1

(* C21, amended: every Wallet setter writes exactly the fields its body    *)
(* names: one for most, currency, conversionRate and availableCurrencies   *)
(* for updateCurrencyData, node and hasRandomizedNode for                  *)
(* setRandomlySelectedNode, buildNumber and version for setVersions.       *)
(* After a call that returned these hold the values given and every other  *)
(* field of the Wallet row and all accounts and nodes are unchanged; the   *)
(* call returns whenever the row is stored, the payload gives every        *)
(* property the setter reads and the commit does not fail.                 *)

C21_SettersWriteTheirFields ==
    last.op \in WalletSetters
        => /\ last.outcome = "returned" => SetterWroteItsFields
           /\ ( /\ ~IsEmpty(WalletGetObjectForId(last.pre, WalletVersion))
                /\ ~last.faulted
                /\ last.op = "Wallet.updateCurrencyData"
                       => DOMAIN last.args[1] = {"currency", "conversionRate",
                                                 "availableCurrencies"}
                /\ last.op = "Wallet.setVersions"
                       => DOMAIN last.args[1] = {"buildNumber", "version"} )
                 => last.outcome = "returned"

\* setRandomlySelectedNode changed both the node and the flag, nothing else.
C21_Witness ==
    /\ last.op = "Wallet.setRandomlySelectedNode"
    /\ last.outcome = "returned"
    /\ ChangedFields(WalletGetObjectForId(last.pre, WalletVersion),
                     WalletGetObjectForId(realm, WalletVersion))
          = {<<"settings", "node">>, <<"settings", "hasRandomizedNode">>}
    /\ Len(realm.Account) >= 1

---------------------------------------------------------------------------
(* C22: Account.delete(name), Node.delete(url) and Account.migrate(from,   *)
(* to) called with a key that is not stored throw to the caller and leave  *)
(* the store unchanged; migrate of an absent `from` creates no record at   *)
(* `to`.                                                                   *)

C22_AbsentKeyIsReported ==
    /\ (last.op = "Account.delete" /\ ~Stored(last.pre, "Account", last.args[1]))
          => last.outcome = "threw" /\ realm = last.pre
    /\ (last.op = "Node.delete" /\ ~Stored(last.pre, "Node", last.args[1]))
          => last.outcome = "threw" /\ realm = last.pre
    /\ (last.op = "Account.migrate" /\ ~Stored(last.pre, "Account", last.args[1]))
          => /\ last.outcome = "threw"
             /\ realm = last.pre
             /\ Stored(realm, "Account", last.args[2])
                   <=> Stored(last.pre, "Account", last.args[2])

\* A delete of a name that is not stored threw, next to a stored account.
C22_Witness ==
    /\ last.op = "Account.delete"
    /\ ~Stored(last.pre, "Account", last.args[1])
    /\ Len(last.pre.Account) = 1
    /\ ~last.faulted
    /\ last.outcome = "threw"
    /\ realm.Account = last.pre.Account

---------------------------------------------------------------------------
(* C23: Account.migrate(from, to) called when both `from` and `to` are     *)
(* stored throws and leaves both accounts exactly as they were: `to` is    *)
(* not overwritten and `from` is not deleted.                              *)

C23_MigrateOntoStoredNameFails ==
    ( /\ last.op = "Account.migrate"
      /\ Stored(last.pre, "Account", last.args[1])
      /\ Stored(last.pre, "Account", last.args[2]) )
        => /\ last.outcome = "threw"
           /\ SameObject(AccountGetObjectForId(realm, last.args[1]),
                         AccountGetObjectForId(last.pre, last.args[1]))
           /\ SameObject(AccountGetObjectForId(realm, last.args[2]),
                         AccountGetObjectForId(last.pre, last.args[2]))
           /\ realm = last.pre

\* A migrate from one stored account onto another one threw.
C23_Witness ==
    /\ last.op = "Account.migrate"
    /\ last.args[1] # last.args[2]
    /\ Stored(last.pre, "Account", last.args[1])
    /\ Stored(last.pre, "Account", last.args[2])
    /\ ~last.faulted
    /\ last.outcome = "threw"
    /\ Len(realm.Account) = 2

---------------------------------------------------------------------------
(* C24: every call of initialise(), purge() or reinitialise() settles,     *)
(* exactly once.  purge() and initialise() are settled when the call       *)
(* returns: resolved when the write went through (or none was needed),     *)
(* rejected when it failed, never thrown to the caller.  reinitialise()    *)
(* is pending when the call returns, again never thrown; every pending one *)
(* is settled later, one per step of the event loop and oldest first, so   *)
(* that none stays pending.                                                *)

C24_LifecycleCallsSettle ==
    /\ [](last.op \in {"purge", "initialise"}
            => /\ last.outcome \in {"resolved", "rejected"}
               /\ last.outcome = "resolved" <=> ~last.threw)
    /\ [](last.op = "reinitialise"
            => last.outcome \in {"pending", "resolved", "rejected"})
    /\ [][ \/ Disturbed(microtasks') = Disturbed(microtasks)
           \/ /\ Len(microtasks') = Len(microtasks) + 1
              /\ last'.op = "reinitialise" /\ last'.outcome = "pending"
           \/ /\ microtasks' = Disturbed(Tail(microtasks))
              /\ last'.op = "reinitialise"
              /\ last'.outcome \in {"resolved", "rejected"}
              /\ last'.outcome = "resolved"
                    <=> (Head(microtasks).purge = "resolved" /\ ~last'.threw) ]_vars
    /\ \A n \in 1..MaxOps : (Len(microtasks) = n) ~> (Len(microtasks) < n)

\* A reinitialise() whose purge() resolved was rejected when the write of
\* its initialise() failed.
C24_Witness ==
    /\ last.op = "reinitialise"
    /\ last.outcome = "rejected"
    /\ last.wrote
    /\ last.faulted
    /\ AllEmpty(realm)
    /\ microtasks = << >>

---------------------------------------------------------------------------
(* C25: overlapping lifecycle calls are safe.  While the device does not   *)
(* fail, every step of an initialise() or reinitialise(), whatever other   *)
(* lifecycle calls are pending around it, keeps the calls resolving: the   *)
(* purge of a reinitialise() resolves, an initialise() and the deferred    *)
(* step of a reinitialise() whose purge resolved resolve and leave exactly *)
(* one Wallet row of the current version.  The step that settles the last  *)
(* pending call is one of these, so once all have settled there is exactly *)
(* one row and none was rejected for a duplicate key.                      *)

C25_OverlappingLifecycleCallsSafe ==
    [][ ~storageFault =>
          /\ (nOps' = nOps + 1 /\ last'.op = "initialise")
                => last'.outcome = "resolved" /\ ExactlyOneWallet(realm')
          /\ Len(microtasks') > Len(microtasks)
                => /\ ~last'.threw
                   /\ microtasks'[Len(microtasks')].purge = "resolved"
          /\ (Len(microtasks') < Len(microtasks) /\ Head(microtasks).purge = "resolved")
                => /\ last'.outcome = "resolved"
                   /\ ExactlyOneWallet(realm') ]_vars

\* Two reinitialise() calls were pending together: the deferred step of
\* the first made the row, the one of the second found it and resolved.
C25_Witness ==
    /\ last.op = "reinitialise"
    /\ last.outcome = "resolved"
    /\ ~last.quiet
    /\ last.prev = <<"reinitialise", "resolved", TRUE>>
    /\ ~last.wrote
    /\ microtasks = << >>
    /\ ExactlyOneWallet(realm)

---------------------------------------------------------------------------
(* C26: initialise() on a store that already has a Wallet row of the       *)
(* current version changes nothing: the settings written by earlier        *)
(* setters, the errorLog, onboardingComplete and all accounts and nodes    *)
(* are the same before and after the call, which resolves.                 *)

C26_InitialiseKeepsExistingRow ==
    ( /\ last.op = "initialise"
      /\ ~IsEmpty(WalletGetObjectForId(last.pre, WalletVersion)) )
        => /\ last.outcome = "resolved"
           /\ ~last.wrote
           /\ realm.Wallet = last.pre.Wallet
           /\ realm.Account = last.pre.Account
           /\ realm.Node = last.pre.Node

\* initialise() ran right after a setter had changed the Wallet row.
C26_Witness ==
    /\ last.op = "initialise"
    /\ last.prev[1] \in WalletSetters
    /\ last.prev[2] = "returned"
    /\ last.outcome = "resolved"
    /\ Len(realm.Wallet) = 1
    /\ realm.Wallet[1] # FreshWallet
    /\ realm.Wallet = last.pre.Wallet

---------------------------------------------------------------------------
(* C27: the Wallet errorLog is an ordered sequence.  updateErrorLog(p)     *)
(* puts p at the end and keeps the earlier entries at their positions, so  *)
(* a push right after clearErrorLog() leaves the log with that entry only  *)
(* and pushes p1..pn after it leave [p1, ..., pn]; clearErrorLog() leaves  *)
(* the log empty.  Neither changes anything else in the store.             *)

C27_ErrorLogOrdered ==
    LET was == WalletGetObjectForId(last.pre, WalletVersion)
        now == WalletGetObjectForId(realm, WalletVersion)
        rest == /\ realm.Account = last.pre.Account
                /\ realm.Node = last.pre.Node
                /\ Len(realm.Wallet) = Len(last.pre.Wallet)
                /\ now.settings = was.settings
                /\ now.onboardingComplete = was.onboardingComplete
                /\ now.version = was.version
    IN  /\ (last.op = "Wallet.updateErrorLog" /\ last.outcome = "returned")
              => /\ Len(now.errorLog) = Len(was.errorLog) + 1
                 /\ \A i \in 1..Len(was.errorLog) : now.errorLog[i] = was.errorLog[i]
                 /\ now.errorLog[Len(now.errorLog)] = last.args[1]
                 /\ last.prev = <<"Wallet.clearErrorLog", "returned", TRUE>>
                       => now.errorLog = <<last.args[1]>>
                 /\ rest
        /\ (last.op = "Wallet.clearErrorLog" /\ last.outcome = "returned")
              => now.errorLog = << >> /\ rest
        /\ (last.op \in {"Wallet.updateErrorLog", "Wallet.clearErrorLog"}
              /\ ~IsEmpty(was) /\ ~last.faulted)
              => last.outcome = "returned"

\* Two pushes onto a log of one entry: the three entries are in the order
\* they were pushed.
C27_Witness ==
    /\ last.op = "Wallet.updateErrorLog"
    /\ last.prev = <<"Wallet.updateErrorLog", "returned", TRUE>>
    /\ last.outcome = "returned"
    /\ last.args[1] = "e2"
    /\ WalletGetObjectForId(realm, WalletVersion).errorLog = <<"e1", "e1", "e2">>

---------------------------------------------------------------------------
(* ProgressBar.                                                            *)

\* What the component shows and has scheduled.
Shown(b) == <<b.state, b.timers, b.timerText, b.lottie>>

(* C28: the delayed completion reset affects only the run that scheduled   *)
(* it: when a run completed, was interrupted, and a new run started before *)
(* the 'delaySliderReset' timer ran out, the timer running out leaves the  *)
(* new run in progress and its progress as it is.                          *)
C28_StaleResetSparesNewRun ==
    [][ (delaySliderReset /\ bar.resetOf = "stale" /\ bar.state.inProgress)
          => /\ bar'.state.inProgress
             /\ bar'.state.progress = bar.state.progress ]_vars

(* C29: gestures are gated by inProgress: while inProgress, a pan move or  *)
(* release changes nothing and does not invoke props.onCompleteSwipe;      *)
(* while not inProgress, a release invokes onCompleteSwipe only if dx is   *)
(* positive and at least thresholdDistance, and otherwise the slider is    *)
(* animated back to position 0.                                            *)
C29_GesturesGatedByInProgress ==
    [][ /\ ( /\ bar.state.inProgress
             /\ \/ onPanResponderRelease
                \/ \E dx \in Dxs : onPanResponderMove(dx) )
            => (Shown(bar') = Shown(bar) /\ ~bar'.swiped)
        /\ (~bar.state.inProgress /\ onPanResponderRelease)
            => /\ bar'.swiped
                   => (bar.dx > 0 /\ bar.dx >= FixedProps.width - FixedProps.height)
               /\ ~bar'.swiped => bar'.state.sliderPosition.to = 0 ]_vars

====
